---- MODULE Spec2Model ----
(***************************************************************************)
(* Model of vms.py (velib-metropole-stats): the feed parsers, the          *)
(* duplicate resolver, the change-coalescing store and the ingestion runs. *)
(***************************************************************************)
EXTENDS Integers, Sequences, FiniteSets, TLC

VARIABLES
    StationInfo,          \* rows of the StationInfo table (committed)
    StationRecord,        \* rows of the StationRecord table (committed)
    ApiReachabilityStat,  \* rows of the ApiReachabilityStat table (committed)
    clock,                \* arrow.utcnow() of the latest API run, in seconds
    call,                 \* the latest StationCommon.save_if_changed call
    dedup,                \* the latest StationSample.remove_duplicate_code call
    parse,                \* the latest StationSample.from_dict call
    run                   \* the latest App.run

vars == <<StationInfo, StationRecord, ApiReachabilityStat, clock, call, dedup, parse, run>>

-----------------------------------------------------------------------------
(* Bounds *)

\* observation timestamps are 1..MaxMoment
MaxMoment == 3
\* save_if_changed calls of one behaviour of SpecStore
MaxCalls == 3
\* samples of one remove_duplicate_code call of SpecDedup
MaxBatch == 3
\* ingestion runs of one behaviour of Spec
MaxRuns == 2
\* entries of one snapshot of an ingestion run
MaxEntries == 2
\* files of a replayed directory
MaxFiles == 2

Moments == 1..MaxMoment
Codes == {1, 2}

-----------------------------------------------------------------------------
(* JSON values as the feed holds them: a tagged value of one shape.        *)
(* "absent" stands for a key the mapping does not hold, "big" for an       *)
(* integer literal outside the 64-bit range of an SQLite INTEGER, "inf"    *)
(* for a number literal such as 1e999 that json.loads reads as infinity.   *)

Str(s) == [t |-> "str", s |-> s, n |-> 0]
Num(n) == [t |-> "num", s |-> "", n |-> n]
Null == [t |-> "null", s |-> "", n |-> 0]
Absent == [t |-> "absent", s |-> "", n |-> 0]
Big == [t |-> "big", s |-> "", n |-> 0]
Inf == [t |-> "inf", s |-> "", n |-> 0]

\* the decimal strings of the model and the integers they denote
DecimalStr == [s \in {"0", "1", "2", "3"} |->
                 CASE s = "0" -> 0 [] s = "1" -> 1 [] s = "2" -> 2 [] s = "3" -> 3]

\* the value of int(x) / float(x) for a convertible x
Converted(x) == IF x.t = "str" THEN Num(DecimalStr[x.s]) ELSE x

\* the exception of int(x): None or a mapping raises TypeError, a string
\* that is not numeric ValueError, infinity OverflowError; a subscript of a
\* key the mapping does not hold raised KeyError before
IntError(x) ==
    IF x.t = "inf" THEN "OverflowError"
    ELSE IF x.t = "absent" THEN "KeyError"
    ELSE IF x.t = "str" /\ x.s \notin DOMAIN DecimalStr THEN "ValueError"
    ELSE IF x.t \in {"null", "obj"} THEN "TypeError"
    ELSE "none"

\* the exception of float(x): as int(x), but infinity is a float
FloatError(x) == IF x.t = "inf" THEN "none" ELSE IntError(x)

\* the first exception of the steps of an expression, evaluated in order
FirstError(steps) ==
    IF \A i \in 1..Len(steps) : steps[i] = "none" THEN "none"
    ELSE steps[CHOOSE i \in 1..Len(steps) :
                   /\ steps[i] # "none"
                   /\ \A j \in 1..(i - 1) : steps[j] = "none"]

\* a lenient conversion: every string is taken, all but "yes" as false
BoolOk_any_string(x) == x.t = "str"

\* VelibMetropoleApi.bool_from_yes_no_str: defined on "yes" and "no" only
BoolOk(x) == x.t = "str" /\ x.s \in {"yes", "no"}
bool_from_yes_no_str(x) == x.s = "yes"

\* the exception of bool_from_yes_no_str(data[key]) for the value x found
BoolError(x) ==
    IF x.t = "absent" THEN "KeyError"
    ELSE IF BoolOk(x) THEN "none" ELSE "ApiParsingException"

\* the exception that leaves a parser whose try block raised exc: its except
\* clause turns TypeError, KeyError and ValueError into ApiParsingException
Reraised(exc) ==
    IF exc \in {"TypeError", "KeyError", "ValueError"} THEN "ApiParsingException" ELSE exc

\* the element of a one-element set: {e : x \in {v}} evaluates v once
The(S) == CHOOSE x \in S : TRUE

-----------------------------------------------------------------------------
(* Model rows *)

NoInfo ==
    [moment |-> 0, state |-> Null, name |-> Null, stype |-> FALSE, code |-> 0,
     due_date |-> Null, gps_latitude |-> Null, gps_longitude |-> Null]

NoRecord ==
    [moment |-> 0, code |-> 0, overflow |-> FALSE, max_bike_overflow |-> Null,
     nb_e_bike_overflow |-> Null, kiosk_state |-> FALSE, density_level |-> Null,
     nb_ebike |-> Null, nb_free_dock |-> Null, nb_dock |-> Null,
     nb_bike_overflow |-> Null, nb_e_dock |-> Null, credit_card |-> FALSE,
     nb_bike |-> Null, nb_free_e_dock |-> Null, overflow_activation |-> FALSE]

\* has_changed with the due_date comparison left out
StationInfo_has_changed_no_due_date(self, other) ==
    \/ self.state # other.state
    \/ self.name # other.name
    \/ self.stype # other.stype
    \/ self.gps_latitude # other.gps_latitude
    \/ self.gps_longitude # other.gps_longitude

\* StationInfo.has_changed: everything except moment and code
StationInfo_has_changed(self, other) ==
    \/ self.state # other.state
    \/ self.name # other.name
    \/ self.stype # other.stype
    \/ self.due_date # other.due_date
    \/ self.gps_latitude # other.gps_latitude
    \/ self.gps_longitude # other.gps_longitude

\* StationRecord.has_changed: everything except moment and code
StationRecord_has_changed(self, other) ==
    \/ self.overflow # other.overflow
    \/ self.max_bike_overflow # other.max_bike_overflow
    \/ self.nb_e_bike_overflow # other.nb_e_bike_overflow
    \/ self.kiosk_state # other.kiosk_state
    \/ self.density_level # other.density_level
    \/ self.nb_ebike # other.nb_ebike
    \/ self.nb_free_dock # other.nb_free_dock
    \/ self.nb_dock # other.nb_dock
    \/ self.nb_bike_overflow # other.nb_bike_overflow
    \/ self.nb_e_dock # other.nb_e_dock
    \/ self.credit_card # other.credit_card
    \/ self.nb_bike # other.nb_bike
    \/ self.nb_free_e_dock # other.nb_free_e_dock
    \/ self.overflow_activation # other.overflow_activation

\* a NOT NULL column of the row holds None: state and name of StationInfo
\* (due_date is null=True); every StationRecord column is built by int() or
\* bool_from_yes_no_str and is never None
StationInfo_null(row) == row.state.t = "null" \/ row.name.t = "null"

\* an IntegerField of the row holds an integer outside the 64-bit range
StationInfo_out_of_range(row) == row.due_date.t = "big"

StationRecord_out_of_range(row) ==
    \E v \in {row.max_bike_overflow, row.nb_e_bike_overflow, row.density_level,
              row.nb_ebike, row.nb_free_dock, row.nb_dock, row.nb_bike_overflow,
              row.nb_e_dock, row.nb_bike, row.nb_free_e_dock} : v.t = "big"

-----------------------------------------------------------------------------
(* StationCommon: the change-coalescing store.  cls names the model class  *)
(* of self ("StationInfo" or "StationRecord"), table holds its rows.       *)

has_changed(cls, self, other) ==
    IF cls = "StationInfo"
    THEN StationInfo_has_changed(self, other)
    ELSE StationRecord_has_changed(self, other)

\* the exception of an INSERT of the row, apart from a key collision:
\* OverflowError when binding an out-of-range integer, IntegrityError for
\* None in a NOT NULL column
insert_error(cls, row) ==
    IF cls = "StationInfo"
    THEN IF StationInfo_out_of_range(row) THEN "OverflowError"
         ELSE IF StationInfo_null(row) THEN "IntegrityError" ELSE "none"
    ELSE IF StationRecord_out_of_range(row) THEN "OverflowError" ELSE "none"

\* get_latest_up_to_self with the .where(cls.code == self.code) filters left out
get_latest_up_to_self_any_code(table, self) ==
    LET upto == {r \in table : r.moment <= self.moment}
    IN  {r \in upto : \A q \in upto : q.moment <= r.moment}

\* get_latest_up_to_self with cls.moment < self.moment in the place of <=
get_latest_up_to_self_strictly_before(table, self) ==
    LET upto == {r \in table : r.code = self.code /\ r.moment < self.moment}
    IN  {r \in upto : \A q \in upto : q.moment <= r.moment}

\* StationCommon.get_latest_up_to_self: the rows of self's code whose moment
\* is MAX(moment) over the rows of that code with moment <= self.moment;
\* {} stands for None
get_latest_up_to_self(table, self) ==
    LET upto == {r \in table : r.code = self.code /\ r.moment <= self.moment}
    IN  {r \in upto : \A q \in upto : q.moment <= r.moment}

\* the text a CharField column holds for the value x: a string as it is,
\* a number as its decimal text (the model stores strings, null and the
\* numbers of DecimalStr only)
adapt(x) ==
    IF x.t = "num" THEN Str(CHOOSE s \in DOMAIN DecimalStr : DecimalStr[s] = x.n) ELSE x

\* the row as the table holds it and as a later SELECT returns it: state
\* and name are CharField columns, the other columns keep their value
db_value(cls, row) ==
    IF cls = "StationInfo"
    THEN [row EXCEPT !.state = adapt(row.state), !.name = adapt(row.name)]
    ELSE row

\* self.save(force_insert=True): an INSERT; the composite primary key
\* (moment, code) and the column constraints make it raise
save(cls, table, self) ==
    IF insert_error(cls, self) # "none"
    THEN [table |-> table, n |-> 0, exc |-> insert_error(cls, self)]
    ELSE IF \E r \in table : r.moment = self.moment /\ r.code = self.code
    THEN [table |-> table, n |-> 0, exc |-> "IntegrityError"]
    ELSE [table |-> table \cup {db_value(cls, self)}, n |-> 1, exc |-> "none"]

\* save_if_changed taking the other design choice at the same moment:
\* update the stored values from self
save_if_changed_overwrite(cls, table, self) ==
    LET previous == get_latest_up_to_self(table, self)
    IN  IF previous = {}
        THEN save(cls, table, self) @@ [prev |-> 0, changed |-> FALSE]
        ELSE LET p == CHOOSE r \in previous : TRUE
             IN  IF p.moment < self.moment
                 THEN IF has_changed(cls, self, p)
                      THEN save(cls, table, self) @@ [prev |-> p.moment, changed |-> TRUE]
                      ELSE [table |-> table, n |-> 0, exc |-> "none",
                            prev |-> p.moment, changed |-> FALSE]
                 ELSE [table |-> (table \ {p}) \cup {self}, n |-> 1, exc |-> "none",
                       prev |-> p.moment, changed |-> has_changed(cls, self, p)]

\* StationCommon.save_if_changed: the table after the call, the value
\* returned (n), the exception raised (exc), and the locals previous.moment
\* (prev, 0 for None) and has_changed(previous) (changed, FALSE when skipped)
save_if_changed(cls, table, self) ==
    LET previous == get_latest_up_to_self(table, self)
    IN  IF previous = {}
        THEN save(cls, table, self) @@ [prev |-> 0, changed |-> FALSE]
        ELSE LET p == CHOOSE r \in previous : TRUE
             IN  IF self.moment < p.moment
                 THEN [table |-> table, n |-> 0, exc |-> "VmsException",
                       prev |-> p.moment, changed |-> FALSE]
                 ELSE IF p.moment < self.moment
                 THEN IF has_changed(cls, self, p)
                      THEN save(cls, table, self) @@ [prev |-> p.moment, changed |-> TRUE]
                      ELSE [table |-> table, n |-> 0, exc |-> "none",
                            prev |-> p.moment, changed |-> FALSE]
                 ELSE [table |-> table, n |-> 0, exc |-> "none",
                       prev |-> p.moment, changed |-> FALSE]

-----------------------------------------------------------------------------
(* The rows submitted to the store on its own (SpecStore): storable rows   *)
(* that differ from one another in one compared field each.                *)

InfoBase ==
    [moment |-> 0, state |-> Str("Operative"), name |-> Str("Assas"), stype |-> TRUE,
     code |-> 0, due_date |-> Null, gps_latitude |-> Num(1), gps_longitude |-> Num(2)]

InfoVariants ==
    {InfoBase,
     [InfoBase EXCEPT !.state = Str("Work in progress")],
     [InfoBase EXCEPT !.due_date = Num(3)],
     [InfoBase EXCEPT !.gps_longitude = Num(3)]}

RecordBase ==
    [moment |-> 0, code |-> 0, overflow |-> FALSE, max_bike_overflow |-> Num(0),
     nb_e_bike_overflow |-> Num(0), kiosk_state |-> FALSE, density_level |-> Num(0),
     nb_ebike |-> Num(2), nb_free_dock |-> Num(0), nb_dock |-> Num(0),
     nb_bike_overflow |-> Num(0), nb_e_dock |-> Num(3), credit_card |-> FALSE,
     nb_bike |-> Num(1), nb_free_e_dock |-> Num(2), overflow_activation |-> FALSE]

RecordVariants ==
    {RecordBase,
     [RecordBase EXCEPT !.nb_bike = Num(2)],
     [RecordBase EXCEPT !.overflow_activation = TRUE]}

InfoRows ==
    {[v EXCEPT !.moment = m, !.code = c] : v \in InfoVariants, m \in Moments, c \in Codes}

RecordRows ==
    {[v EXCEPT !.moment = m, !.code = c] : v \in RecordVariants, m \in Moments, c \in Codes}

NoCall ==
    [cls |-> "none", info |-> NoInfo, record |-> NoRecord, prev |-> 0,
     changed |-> FALSE, n |-> 0, exc |-> "none", count |-> 0]

NoDedup == [input |-> <<>>, output |-> <<>>, exc |-> "none", done |-> FALSE]

\* no StationSample.from_dict call yet (data keeps the shape of an entry)
NoParse ==
    [done |-> FALSE, moment |-> 0, ok |-> FALSE, exc |-> "none", info |-> NoInfo,
     record |-> NoRecord,
     data |-> [t |-> "absent",
               station |-> [t |-> "absent", state |-> Absent, name |-> Absent,
                            type |-> Absent, code |-> Absent, dueDate |-> Absent,
                            gps |-> [t |-> "absent", latitude |-> Absent,
                                     longitude |-> Absent]],
               overflow |-> Absent, maxBikeOverflow |-> Absent, nbEBikeOverflow |-> Absent,
               kioskState |-> Absent, densityLevel |-> Absent, nbEbike |-> Absent,
               nbFreeDock |-> Absent, nbDock |-> Absent, nbBikeOverflow |-> Absent,
               nbEDock |-> Absent, creditCard |-> Absent, nbBike |-> Absent,
               nbFreeEDock |-> Absent, overflowActivation |-> Absent]]

\* no run yet; nfiles and skip are the files found and the option
\* --skip-file-on-error of a run with --dir
NoRun ==
    [mode |-> "none", count |-> 0, works |-> <<>>, exc |-> "none", nfiles |-> 0,
     skip |-> FALSE]

Init ==
    /\ StationInfo = {}
    /\ StationRecord = {}
    /\ ApiReachabilityStat = {}
    /\ clock = 1
    /\ call = NoCall
    /\ dedup = NoDedup
    /\ parse = NoParse
    /\ run = NoRun

\* one save_if_changed call on a StationInfo instance, outside any
\* transaction: a successful insert is committed at once
SaveInfo(self) ==
    /\ call.count < MaxCalls
    /\ \E r \in {save_if_changed("StationInfo", StationInfo, self)} :
           /\ StationInfo' = r.table
           /\ call' = [cls |-> "StationInfo", info |-> self, record |-> NoRecord,
                       prev |-> r.prev, changed |-> r.changed, n |-> r.n,
                       exc |-> r.exc, count |-> call.count + 1]
    /\ UNCHANGED <<StationRecord, ApiReachabilityStat, clock, dedup, parse, run>>

\* one save_if_changed call on a StationRecord instance
SaveRecord(self) ==
    /\ call.count < MaxCalls
    /\ \E r \in {save_if_changed("StationRecord", StationRecord, self)} :
           /\ StationRecord' = r.table
           /\ call' = [cls |-> "StationRecord", info |-> NoInfo, record |-> self,
                       prev |-> r.prev, changed |-> r.changed, n |-> r.n,
                       exc |-> r.exc, count |-> call.count + 1]
    /\ UNCHANGED <<StationInfo, ApiReachabilityStat, clock, dedup, parse, run>>

NextStore ==
    \/ \E self \in InfoRows : SaveInfo(self)
    \/ \E self \in RecordRows : SaveRecord(self)

SpecStore == Init /\ [][NextStore]_vars

-----------------------------------------------------------------------------
(* The parsers.  A feed entry is a mapping (t = "obj") that holds a        *)
(* station mapping, which holds a gps mapping; a value of another JSON     *)
(* type in the place of a mapping has another t.                           *)

ParseFailure(exc) == [ok |-> FALSE, exc |-> exc, info |-> NoInfo, record |-> NoRecord]

\* the exception that leaves StationInfo.from_dict ("none": an instance is
\* returned): the keyword arguments are evaluated in the order written
StationInfo_from_dict_error(data) ==
    Reraised(FirstError(
        <<IF data.t # "obj" THEN "TypeError" ELSE "none",
          IF data.state.t = "absent" THEN "KeyError" ELSE "none",
          IF data.name.t = "absent" THEN "KeyError" ELSE "none",
          BoolError(data.type),
          IntError(data.code),
          IF data.gps.t = "absent" THEN "KeyError"
          ELSE IF data.gps.t # "obj" THEN "TypeError" ELSE "none",
          FloatError(data.gps.latitude),
          FloatError(data.gps.longitude),
          IF data.dueDate.t = "null" THEN "none" ELSE IntError(data.dueDate)>>))

\* StationInfo.from_dict succeeds: every subscript finds its key, type is
\* "yes" or "no", code and the coordinates convert, dueDate is None or
\* converts
StationInfo_from_dict_ok(data) == StationInfo_from_dict_error(data) = "none"

\* StationInfo.from_dict: the instance built from a station mapping
StationInfo_from_dict(moment, data) ==
    [moment |-> moment,
     state |-> data.state,
     name |-> data.name,
     stype |-> bool_from_yes_no_str(data.type),
     code |-> Converted(data.code).n,
     due_date |-> IF data.dueDate.t = "null" THEN Null ELSE Converted(data.dueDate),
     gps_latitude |-> Converted(data.gps.latitude),
     gps_longitude |-> Converted(data.gps.longitude)]

\* the exception that leaves StationRecord.from_dict
StationRecord_from_dict_error(data) ==
    Reraised(FirstError(
        <<IF data.t # "obj" THEN "TypeError"
          ELSE IF data.station.t = "absent" THEN "KeyError"
          ELSE IF data.station.t # "obj" THEN "TypeError" ELSE "none",
          IntError(data.station.code),
          BoolError(data.overflow),
          IntError(data.maxBikeOverflow),
          IntError(data.nbEBikeOverflow),
          BoolError(data.kioskState),
          IntError(data.densityLevel),
          IntError(data.nbEbike),
          IntError(data.nbFreeDock),
          IntError(data.nbDock),
          IntError(data.nbBikeOverflow),
          IntError(data.nbEDock),
          BoolError(data.creditCard),
          IntError(data.nbBike),
          IntError(data.nbFreeEDock),
          BoolError(data.overflowActivation)>>))

\* StationRecord.from_dict succeeds
StationRecord_from_dict_ok(data) == StationRecord_from_dict_error(data) = "none"

\* StationRecord.from_dict: the instance built from an entry
StationRecord_from_dict(moment, data) ==
    [moment |-> moment,
     code |-> Converted(data.station.code).n,
     overflow |-> bool_from_yes_no_str(data.overflow),
     max_bike_overflow |-> Converted(data.maxBikeOverflow),
     nb_e_bike_overflow |-> Converted(data.nbEBikeOverflow),
     kiosk_state |-> bool_from_yes_no_str(data.kioskState),
     density_level |-> Converted(data.densityLevel),
     nb_ebike |-> Converted(data.nbEbike),
     nb_free_dock |-> Converted(data.nbFreeDock),
     nb_dock |-> Converted(data.nbDock),
     nb_bike_overflow |-> Converted(data.nbBikeOverflow),
     nb_e_dock |-> Converted(data.nbEDock),
     credit_card |-> bool_from_yes_no_str(data.creditCard),
     nb_bike |-> Converted(data.nbBike),
     nb_free_e_dock |-> Converted(data.nbFreeEDock),
     overflow_activation |-> bool_from_yes_no_str(data.overflowActivation)]

\* StationSample.from_dict: data['station'] is evaluated outside any try,
\* then the two halves are parsed, the information first
StationSample_from_dict(moment, data) ==
    IF data.t # "obj" THEN ParseFailure("TypeError")
    ELSE IF data.station.t = "absent" THEN ParseFailure("KeyError")
    ELSE IF ~StationInfo_from_dict_ok(data.station)
    THEN ParseFailure(StationInfo_from_dict_error(data.station))
    ELSE IF ~StationRecord_from_dict_ok(data)
    THEN ParseFailure(StationRecord_from_dict_error(data))
    ELSE [ok |-> TRUE, exc |-> "none",
          info |-> StationInfo_from_dict(moment, data.station),
          record |-> StationRecord_from_dict(moment, data)]

-----------------------------------------------------------------------------
(* StationSample.remove_duplicate_code over the parsed samples of a batch  *)
(* (each sample is [info, record]).                                        *)

\* the keys of sample_bins in insertion order: the codes by first occurrence
RECURSIVE sample_bins_keys(_)
sample_bins_keys(iterable) ==
    IF iterable = <<>> THEN <<>>
    ELSE LET front == sample_bins_keys(SubSeq(iterable, 1, Len(iterable) - 1))
             code == iterable[Len(iterable)].info.code
         IN  IF \E i \in 1..Len(front) : front[i] = code THEN front ELSE Append(front, code)

\* sample_bins[code] after the grouping loop
group_of(iterable, code) == SelectSeq(iterable, LAMBDA x : x.info.code = code)

\* [sample for sample in samples if sample._info.state == "Operative"]
operative_of(samples) == SelectSeq(samples, LAMBDA x : x.info.state = Str("Operative"))

\* samples_after with a group that has no "Operative" entry left as it is
samples_after_keep_inoperative(iterable, code) ==
    LET samples == group_of(iterable, code)
    IN  IF Len(samples) = 1 \/ operative_of(samples) = <<>>
        THEN samples ELSE operative_of(samples)

\* the local `samples` at the end of the loop iteration for code, which is
\* also sample_bins[code] from then on
samples_after(iterable, code) ==
    LET samples == group_of(iterable, code)
    IN  IF Len(samples) = 1 THEN samples ELSE operative_of(samples)

\* the generator of line 553: its outer loop runs over the local `samples`
\* as the duplicate loop left it, its inner loop over sample_bins.values(),
\* and it yields the outer loop's sample: each one, len(sample_bins) times
flatten(samples, n) ==
    [i \in 1..(Len(samples) * n) |-> samples[((i - 1) \div n) + 1]]

\* remove_duplicate_code without the raise of line 549: the Operative
\* entries of a station are all kept
remove_duplicate_code_no_raise(iterable) ==
    The({IF keys = <<>>
         THEN [exc |-> "UnboundLocalError", output |-> <<>>]
         ELSE [exc |-> "none",
               output |-> flatten(samples_after(iterable, keys[Len(keys)]),
                                  Len(keys))] :
         keys \in {sample_bins_keys(iterable)}})

\* StationSample.remove_duplicate_code: the samples yielded, or the
\* exception raised (Exception for a group with several Operative entries,
\* UnboundLocalError when the batch is empty and `samples` was never bound)
remove_duplicate_code(iterable) ==
    The({IF \E i \in 1..Len(keys) :
                /\ Len(group_of(iterable, keys[i])) > 1
                /\ Len(operative_of(group_of(iterable, keys[i]))) > 1
         THEN [exc |-> "Exception", output |-> <<>>]
         ELSE IF keys = <<>>
         THEN [exc |-> "UnboundLocalError", output |-> <<>>]
         ELSE [exc |-> "none",
               output |-> flatten(samples_after(iterable, keys[Len(keys)]),
                                  Len(keys))] :
         keys \in {sample_bins_keys(iterable)}})

\* the samples handed to the resolver on its own (SpecDedup): per code and
\* state, two samples told apart by nb_bike
DedupSamples ==
    {[info |-> [InfoBase EXCEPT !.moment = 1, !.code = c, !.state = Str(st)],
      record |-> [RecordBase EXCEPT !.moment = 1, !.code = c, !.nb_bike = Num(b)]] :
        c \in Codes, st \in {"Operative", "Work in progress"}, b \in {1, 2}}

\* the sequences over S of length at most n
SeqsUpTo(S, n) == UNION {[1..k -> S] : k \in 0..n}

\* one remove_duplicate_code call
RemoveDuplicateCode(iterable) ==
    /\ ~dedup.done
    /\ \E r \in {remove_duplicate_code(iterable)} :
           dedup' = [input |-> iterable, output |-> r.output, exc |-> r.exc, done |-> TRUE]
    /\ UNCHANGED <<StationInfo, StationRecord, ApiReachabilityStat, clock, call, parse, run>>

NextDedup == \E iterable \in SeqsUpTo(DedupSamples, MaxBatch) : RemoveDuplicateCode(iterable)

SpecDedup == Init /\ [][NextDedup]_vars

-----------------------------------------------------------------------------
(* The resolver's contract (C9 .. C11) *)

\* C9 (as claimed): when remove_duplicate_code does not fail, no station
\* code occurs twice in its output.
C9_OnePerStation ==
    (dedup.done /\ dedup.exc = "none") =>
        \A i, j \in 1..Len(dedup.output) :
            i # j => dedup.output[i].info.code # dedup.output[j].info.code

\* what the code does: a batch of two stations yields one sample twice
C9_Witness ==
    /\ dedup.done /\ dedup.exc = "none"
    /\ Len(dedup.input) = 2
    /\ dedup.input[1].info.code # dedup.input[2].info.code
    /\ dedup.output = <<dedup.input[2], dedup.input[2]>>

\* C10 (as claimed): when no conflict is raised, every station code with
\* exactly one entry in the input has that entry, and no other, as its
\* entries of the output.
C10_SingletonsPass ==
    (dedup.done /\ dedup.exc = "none") =>
        \A i \in 1..Len(dedup.input) :
            LET e == dedup.input[i]
            IN  Len(group_of(dedup.input, e.info.code)) = 1 =>
                    {dedup.output[k] : k \in {k \in 1..Len(dedup.output) :
                                                 dedup.output[k].info.code = e.info.code}}
                        = {e}

\* what the code does: the single entry of the first station is dropped
C10_Witness ==
    /\ dedup.done /\ dedup.exc = "none"
    /\ Len(dedup.input) = 2
    /\ dedup.input[1].info.code # dedup.input[2].info.code
    /\ \A k \in 1..Len(dedup.output) : dedup.output[k] # dedup.input[1]

\* no station of the batch has several entries with state "Operative"
NoConflict(iterable) ==
    \A i \in 1..Len(iterable) :
        Len(operative_of(group_of(iterable, iterable[i].info.code))) <= 1

\* the entries of the output that carry the station code
OutputOf(code) ==
    {dedup.output[k] : k \in {k \in 1..Len(dedup.output) : dedup.output[k].info.code = code}}

\* C11 (as claimed): when a station has several entries in the batch and
\* exactly one of them is Operative (and no station has several Operative
\* entries), remove_duplicate_code raises nothing and its output holds, for
\* that station, the Operative entry and no other.
C11_OperativeKept ==
    (dedup.done /\ NoConflict(dedup.input)) =>
        \A i \in 1..Len(dedup.input) :
            LET code == dedup.input[i].info.code
                group == group_of(dedup.input, code)
            IN  (Len(group) > 1 /\ Len(operative_of(group)) = 1) =>
                    /\ dedup.exc = "none"
                    /\ OutputOf(code) = {operative_of(group)[1]}

\* what the code does: the duplicated station is followed by another one,
\* and its Operative entry is not in the output
C11_Witness ==
    /\ dedup.done /\ dedup.exc = "none"
    /\ Len(dedup.input) = 3
    /\ dedup.input[1].info.code = dedup.input[2].info.code
    /\ dedup.input[1].info.state = Str("Operative")
    /\ dedup.input[2].info.state # Str("Operative")
    /\ dedup.input[3].info.code # dedup.input[1].info.code
    /\ OutputOf(dedup.input[1].info.code) = {}
    /\ dedup.output = <<dedup.input[3], dedup.input[3]>>


-----------------------------------------------------------------------------
(* The feed entries and payloads of the ingestion runs (Spec) *)

NoGps == [t |-> "absent", latitude |-> Absent, longitude |-> Absent]

NoStation ==
    [t |-> "absent", state |-> Absent, name |-> Absent, type |-> Absent,
     code |-> Absent, dueDate |-> Absent, gps |-> NoGps]

\* a well-formed station mapping, as in the docstring of StationInfo.from_dict
Station(code, state) ==
    [t |-> "obj", state |-> Str(state), name |-> Str("Assas"), type |-> Str("yes"),
     code |-> Str(code), dueDate |-> Null,
     gps |-> [t |-> "obj", latitude |-> Num(1), longitude |-> Num(2)]]

\* a well-formed entry, as in the docstring of StationRecord.from_dict
Entry(code, state, nbBike) ==
    [t |-> "obj", station |-> Station(code, state), overflow |-> Str("no"),
     maxBikeOverflow |-> Num(0), nbEBikeOverflow |-> Num(0), kioskState |-> Str("no"),
     densityLevel |-> Num(0), nbEbike |-> Num(2), nbFreeDock |-> Num(0),
     nbDock |-> Num(0), nbBikeOverflow |-> Num(0), nbEDock |-> Num(3),
     creditCard |-> Str("no"), nbBike |-> nbBike, nbFreeEDock |-> Num(2),
     overflowActivation |-> Str("no")]

\* the entries every field of which parses and is stored
ValidEntries ==
    {Entry("1", "Operative", Num(1)), Entry("1", "Operative", Num(2)),
     Entry("1", "Work in progress", Num(1)), Entry("2", "Operative", Num(1))}

\* entries that parse and that the storage engine refuses: a null name
\* (StationInfo), a count outside the INTEGER range (StationRecord)
RefusedEntries ==
    {[Entry("1", "Operative", Num(1)) EXCEPT !.station.name = Null],
     Entry("1", "Operative", Big)}

\* an entry that does not parse: a bad boolean string
MalformedEntries ==
    {[Entry("1", "Operative", Num(1)) EXCEPT !.station.type = Str("maybe")]}

\* entries that parse and are stored, whose name is a JSON number:
\* from_dict takes state and name as they come
UntypedEntries ==
    {[Entry("1", "Operative", Num(1)) EXCEPT !.station.name = Num(2)],
     [Entry("1", "Operative", Num(2)) EXCEPT !.station.name = Num(2)]}

Entries == ValidEntries \cup RefusedEntries \cup MalformedEntries \cup UntypedEntries

\* a character of a JSON string, iterated as if it were an entry
CharEntry == [Entry("1", "Operative", Num(1)) EXCEPT !.t = "str"]

\* the text handed to do_work, by what json.loads makes of it: "empty" (no
\* text), "notjson", "error" (a mapping with an error member whose code is
\* code), "dict" (a mapping without error), "scalar" (a number, true,
\* false or null), "string" (a JSON string) and "list" (a list of entries)
Payload(kind, code, entries) == [kind |-> kind, code |-> code, entries |-> entries]

Payloads ==
    {Payload("empty", Absent, <<>>), Payload("notjson", Absent, <<>>),
     Payload("error", Num(3), <<>>), Payload("error", Absent, <<>>),
     Payload("error", Inf, <<>>),
     Payload("dict", Absent, <<>>), Payload("scalar", Absent, <<>>),
     Payload("string", Absent, <<CharEntry>>)}
        \cup {Payload("list", Absent, e) : e \in SeqsUpTo(Entries, MaxEntries)}

\* the payloads of the files of a replayed directory
DirPayloads ==
    {Payload("empty", Absent, <<>>),
     Payload("error", Num(3), <<>>),
     Payload("list", Absent, <<[Entry("1", "Operative", Num(1))
                                   EXCEPT !.station.type = Str("maybe")]>>),
     Payload("list", Absent, <<Entry("1", "Operative", Num(1))>>),
     Payload("list", Absent, <<Entry("1", "Operative", Num(2))>>),
     Payload("list", Absent, <<Entry("1", "Operative", Num(1)),
                               Entry("1", "Operative", Num(2))>>)}

-----------------------------------------------------------------------------
(* The parsers on their own (SpecParse): one StationSample.from_dict call  *)
(* on a well-formed entry or on one that departs from it in one place.     *)

\* the values put in the place of a field: no key, null, strings that are
\* and are not booleans and numbers, numbers, infinity, a mapping
FieldValues ==
    {Absent, Null, Str("yes"), Str("no"), Str("maybe"), Str("2"), Num(2), Big, Inf,
     [t |-> "obj", s |-> "", n |-> 0]}

StationFields == {"state", "name", "type", "code", "dueDate"}

RecordFields ==
    {"overflow", "maxBikeOverflow", "nbEBikeOverflow", "kioskState", "densityLevel",
     "nbEbike", "nbFreeDock", "nbDock", "nbBikeOverflow", "nbEDock", "creditCard",
     "nbBike", "nbFreeEDock", "overflowActivation"}

\* the JSON types found in the place of a mapping
MappingTypes == {"obj", "absent", "null", "str", "num"}

WellFormed == Entry("1", "Operative", Num(1))

ParseEntries ==
    {[WellFormed EXCEPT !.t = t] : t \in MappingTypes \ {"absent"}}
        \cup {[WellFormed EXCEPT !.station.t = t] : t \in MappingTypes}
        \cup {[WellFormed EXCEPT !.station.gps.t = t] : t \in MappingTypes}
        \cup {[WellFormed EXCEPT !.station.gps.latitude = v] : v \in FieldValues}
        \cup {[WellFormed EXCEPT !.station.gps.longitude = v] : v \in FieldValues}
        \cup {[WellFormed EXCEPT !.station[f] = v] : f \in StationFields, v \in FieldValues}
        \cup {[WellFormed EXCEPT ![f] = v] : f \in RecordFields, v \in FieldValues}
        \cup {[WellFormed EXCEPT !.station.type = Str("maybe"), !.station.code = Inf],
              [WellFormed EXCEPT !.station.code = Inf, !.station.dueDate = Str("maybe")],
              [WellFormed EXCEPT !.nbBike = Inf, !.overflowActivation = Str("maybe")],
              [WellFormed EXCEPT !.overflow = Str("maybe"), !.nbBike = Inf]}

\* one StationSample.from_dict call
FromDict(moment, data) ==
    /\ ~parse.done
    /\ \E r \in {StationSample_from_dict(moment, data)} :
           parse' = [done |-> TRUE, moment |-> moment, ok |-> r.ok, exc |-> r.exc,
                     info |-> r.info, record |-> r.record, data |-> data]
    /\ UNCHANGED <<StationInfo, StationRecord, ApiReachabilityStat, clock, call, dedup, run>>

NextParse == \E moment \in Moments, data \in ParseEntries : FromDict(moment, data)

SpecParse == Init /\ [][NextParse]_vars

-----------------------------------------------------------------------------
(* App.do_work *)

\* best-effort parsing: the entries that fail to parse are left out
parse_all_skip_malformed(moment, entries) ==
    The({[exc |-> "none",
          samples |-> [i \in 1..Len(good) |->
                          [info |-> good[i].info, record |-> good[i].record]],
          n |-> Len(entries)] :
         good \in {SelectSeq([i \in 1..Len(entries) |->
                                 StationSample_from_dict(moment, entries[i])],
                             LAMBDA x : x.ok)}})

\* the generator of StationSample.from_dict calls as the grouping loop of
\* remove_duplicate_code consumes it: the first parse failure of the batch,
\* parsed in order, else the samples; n counts the from_dict calls made
parse_all(moment, entries) ==
    The({IF \E i \in 1..Len(parsed) : ~parsed[i].ok
         THEN The({[exc |-> parsed[first].exc, samples |-> <<>>, n |-> first] :
                   first \in {CHOOSE i \in 1..Len(parsed) :
                                  /\ ~parsed[i].ok
                                  /\ \A j \in 1..(i - 1) : parsed[j].ok}})
         ELSE [exc |-> "none",
               samples |-> [i \in 1..Len(parsed) |->
                               [info |-> parsed[i].info, record |-> parsed[i].record]],
               n |-> Len(parsed)] :
         parsed \in {[i \in 1..Len(entries) |-> StationSample_from_dict(moment, entries[i])]}})

\* save_all_if_changed with its halves coupled: the StationRecord half is
\* submitted only when the StationInfo half was written
save_all_if_changed_coupled(st, sample) ==
    The({IF i.exc # "none" THEN [st EXCEPT !.exc = i.exc]
         ELSE IF i.n = 0 THEN [st EXCEPT !.info = i.table]
         ELSE The({[info |-> i.table, record |-> r.table,
                    count |-> st.count + i.n + r.n, exc |-> r.exc] :
                   r \in {save_if_changed("StationRecord", st.record, sample.record)}}) :
         i \in {save_if_changed("StationInfo", st.info, sample.info)}})

\* StationSample.save_all_if_changed inside the transaction st (its view of
\* the two tables, the running count, the exception if one was raised)
save_all_if_changed(st, sample) ==
    The({IF i.exc # "none" THEN [st EXCEPT !.exc = i.exc]
         ELSE The({[info |-> i.table, record |-> r.table,
                    count |-> st.count + i.n + r.n, exc |-> r.exc] :
                   r \in {save_if_changed("StationRecord", st.record, sample.record)}}) :
         i \in {save_if_changed("StationInfo", st.info, sample.info)}})

\* for entry in station_records: new_records_count += entry.save_all_if_changed()
\* (the loop from its k-th sample on, in the transaction state st)
RECURSIVE process(_, _, _)
process(st, station_records, k) ==
    IF k > Len(station_records) \/ st.exc # "none" THEN st
    ELSE The({process(after, station_records, k + 1) :
              after \in {save_all_if_changed(st, station_records[k])}})

\* the block without its rollback: what was written stays
atomic_no_rollback(info, record, st) == [info |-> st.info, record |-> st.record]

\* with DATABASE.atomic(): the tables committed when the block is left, from
\* the tables before it and the transaction's state at its end
atomic(info, record, st) ==
    IF st.exc = "none"
    THEN [info |-> st.info, record |-> st.record]
    ELSE [info |-> info, record |-> record]

\* the outcome of a do_work that raised before the transaction: code is
\* the code attribute of the exception (0 when it has none), parsed the
\* number of entries handed to StationSample.from_dict
Raised(info, record, moment, data, exc) ==
    [moment |-> moment, data |-> data, exc |-> exc, code |-> 0, parsed |-> 0, count |-> 0,
     info |-> info, record |-> record, info_written |-> {}, record_written |-> {},
     empty_before |-> info = {} /\ record = {}]

\* App.do_work(moment, data) on the committed tables info and record: the
\* exception raised, the count logged, the tables committed afterwards, and
\* the rows the transaction inserted before it was left.  json_data['error']
\* raises TypeError for everything that is not a mapping, and the code goes
\* on: len() raises TypeError for a number, true, false or null ("scalar"),
\* while a list and a string ("string": its entries are its characters)
\* are iterated
do_work(info, record, moment, data) ==
    IF data.kind = "empty" THEN Raised(info, record, moment, data, "ApiEmptyReplyException")
    ELSE IF data.kind = "notjson"
    THEN Raised(info, record, moment, data, "ApiParsingException")
    ELSE IF data.kind = "error"
    THEN IF IntError(data.code) = "none"
         THEN [Raised(info, record, moment, data, "ApiErrorCode")
                   EXCEPT !.code = Converted(data.code).n]
         ELSE Raised(info, record, moment, data, Reraised(IntError(data.code)))
    ELSE IF data.kind = "dict"
    THEN Raised(info, record, moment, data, "ApiParsingException")
    ELSE IF data.kind = "scalar" THEN Raised(info, record, moment, data, "TypeError")
    ELSE The({
        IF parsed.exc # "none"
        THEN [Raised(info, record, moment, data, parsed.exc) EXCEPT !.parsed = parsed.n]
        ELSE The({
            IF station_records.exc # "none"
            THEN [Raised(info, record, moment, data, station_records.exc)
                      EXCEPT !.parsed = parsed.n]
            ELSE The({
                The({[moment |-> moment, data |-> data, exc |-> st.exc,
                      code |-> 0, parsed |-> parsed.n,
                      count |-> IF st.exc = "none" THEN st.count ELSE 0,
                      info |-> committed.info, record |-> committed.record,
                      info_written |-> st.info \ info,
                      record_written |-> st.record \ record,
                      empty_before |-> info = {} /\ record = {}] :
                     committed \in {atomic(info, record, st)}}) :
                st \in {process([info |-> info, record |-> record, count |-> 0,
                                 exc |-> "none"], station_records.output, 1)}}) :
            station_records \in {remove_duplicate_code(parsed.samples)}}) :
        parsed \in {parse_all(moment, data.entries)}})

\* the exceptions that are ApiException
IsApiException(exc) ==
    exc \in {"ApiEmptyReplyException", "ApiParsingException", "ApiErrorCode",
             "ApiNetworkException", "ApiHttpException"}

-----------------------------------------------------------------------------
(* ApiReachabilityStat.save_api_stat and App.run *)

\* save_api_stat without its except clause: the IntegrityError of a key
\* collision leaves it
save_api_stat_uncaught(table, moment, result, detail) ==
    IF \E r \in table : r.moment = moment
    THEN [table |-> table, exc |-> "IntegrityError"]
    ELSE [table |-> table \cup {[moment |-> moment, result |-> result, detail |-> detail]},
          exc |-> "none"]

\* ApiReachabilityStat.save_api_stat: create the row; moment is the primary
\* key, and the exception of a collision is caught and logged, so that
\* none leaves the call (exc)
save_api_stat(table, moment, result, detail) ==
    IF \E r \in table : r.moment = moment
    THEN [table |-> table, exc |-> "none"]
    ELSE [table |-> table \cup {[moment |-> moment, result |-> result, detail |-> detail]},
          exc |-> "none"]

\* the record of a run: the do_work calls it made, the exception that left
\* App.run ("none": exit code 0)
Ran(mode, works, exc) ==
    [mode |-> mode, count |-> run.count + 1, works |-> works, exc |-> exc,
     nfiles |-> 0, skip |-> FALSE]

\* App.run with --file: get_from_file, then do_work
RunFile(moment, data) ==
    /\ run.count < MaxRuns
    /\ \E w \in {do_work(StationInfo, StationRecord, moment, data)} :
           /\ StationInfo' = w.info
           /\ StationRecord' = w.record
           /\ run' = Ran("file", <<w>>, w.exc)
    /\ UNCHANGED <<ApiReachabilityStat, clock, call, dedup, parse>>

\* App.run without --file and --dir when get_json raises: the failure is
\* recorded and raised again (exc is ApiNetworkException or ApiHttpException);
\* an exception leaving save_api_stat would replace it
RunApiUnreachable(moment, exc) ==
    /\ run.count < MaxRuns
    /\ moment >= clock
    /\ clock' = moment
    /\ \E s \in {save_api_stat(ApiReachabilityStat, moment, FALSE, exc)} :
           /\ ApiReachabilityStat' = s.table
           /\ run' = Ran("api", <<>>, IF s.exc = "none" THEN exc ELSE s.exc)
    /\ UNCHANGED <<StationInfo, StationRecord, call, dedup, parse>>

\* App.run without --file and --dir when get_json returns data: the success
\* is recorded, then do_work; an exception leaving save_api_stat would leave
\* get_from_api and App.run before do_work is called
RunApi(moment, data) ==
    /\ run.count < MaxRuns
    /\ moment >= clock
    /\ clock' = moment
    /\ \E s \in {save_api_stat(ApiReachabilityStat, moment, TRUE, "")} :
           /\ ApiReachabilityStat' = s.table
           /\ \E w \in {IF s.exc = "none"
                         THEN do_work(StationInfo, StationRecord, moment, data)
                         ELSE Raised(StationInfo, StationRecord, moment, data, s.exc)} :
                  /\ StationInfo' = w.info
                  /\ StationRecord' = w.record
                  /\ run' = Ran("api", IF s.exc = "none" THEN <<w>> ELSE <<>>, w.exc)
    /\ UNCHANGED <<call, dedup, parse>>

\* for file_path in sorted(files): do_work, and an ApiException ends the run
\* unless skip_file_on_error; any other exception ends it
RECURSIVE run_dir(_, _, _, _)
run_dir(st, files, skip_file_on_error, k) ==
    IF k > Len(files) \/ st.exc # "none" THEN st
    ELSE The({run_dir(after, files, skip_file_on_error, k + 1) :
              after \in {[info |-> w.info, record |-> w.record,
                          works |-> Append(st.works, w),
                          exc |-> IF IsApiException(w.exc) /\ skip_file_on_error
                                  THEN "none" ELSE w.exc] :
                         w \in {do_work(st.info, st.record, files[k].moment,
                                        files[k].data)}}})

\* the files of a directory in sorted order: the file name starts with the
\* moment, so the moments increase
DirFiles ==
    {f \in SeqsUpTo([moment : Moments, data : DirPayloads], MaxFiles) :
        /\ f # <<>>
        /\ \A i \in 1..(Len(f) - 1) : f[i].moment < f[i + 1].moment}

\* App.run with --dir
RunDir(files, skip_file_on_error) ==
    /\ run.count < MaxRuns
    /\ \E st \in {run_dir([info |-> StationInfo, record |-> StationRecord,
                            works |-> <<>>, exc |-> "none"], files, skip_file_on_error, 1)} :
           /\ StationInfo' = st.info
           /\ StationRecord' = st.record
           /\ run' = [Ran("dir", st.works, st.exc)
                          EXCEPT !.nfiles = Len(files), !.skip = skip_file_on_error]
    /\ UNCHANGED <<ApiReachabilityStat, clock, call, dedup, parse>>

Next ==
    \/ \E moment \in Moments, data \in Payloads : RunFile(moment, data)
    \/ \E moment \in Moments, exc \in {"ApiNetworkException", "ApiHttpException"} :
           RunApiUnreachable(moment, exc)
    \/ \E moment \in Moments, data \in Payloads : RunApi(moment, data)
    \/ \E files \in DirFiles, skip_file_on_error \in BOOLEAN : RunDir(files, skip_file_on_error)

Spec == Init /\ [][Next]_vars

-----------------------------------------------------------------------------
(* The store's contract (C1 .. C4), over one save_if_changed call: table   *)
(* is the class's table before the call, after the table after it, B the   *)
(* record submitted and c the call as recorded.                            *)

\* the compared fields of two rows agree: all but moment and code
SameFields(A, B) == [A EXCEPT !.moment = 0, !.code = 0] = [B EXCEPT !.moment = 0, !.code = 0]

\* A is the most recent row of B's station stored at or before B's time
LatestUpTo(table, A, B) ==
    /\ A \in table
    /\ A.code = B.code
    /\ A.moment <= B.moment
    /\ \A r \in table : r.code = B.code /\ r.moment <= B.moment => r.moment <= A.moment

C1_On(table, after, B, c) ==
    \A A \in table :
        LatestUpTo(table, A, B) /\ A.moment < B.moment =>
            IF SameFields(A, B)
            THEN c.n = 0 /\ c.exc = "none" /\ after = table
            ELSE c.n = 1 /\ c.exc = "none" /\ after = table \cup {B}

C2_On(table, after, B, c) ==
    (\A r \in table : ~(r.code = B.code /\ r.moment <= B.moment)) =>
        c.n = 1 /\ c.exc = "none" /\ after = table \cup {B}

C3_On(table, after, B, c) ==
    (\E r \in table : r.code = B.code /\ r.moment = B.moment) =>
        c.n = 0 /\ c.exc = "none" /\ after = table

C4_On(table, after, B, c) ==
    (\E r \in table : r.code = B.code /\ r.moment > B.moment) =>
        c.n = 0 /\ c.exc = "VmsException" /\ after = table

\* the step is a save_if_changed call on an instance of cls
Called(cls) == call'.cls = cls /\ call'.count = call.count + 1

\* C1: when the most recent stored row A at or before B's time is strictly
\* older than B, save_if_changed(B) writes 0 rows if all compared fields of
\* B equal A's, and exactly the one row B if any of them differs.
C1_ChangeDecides ==
    [][/\ Called("StationInfo") => C1_On(StationInfo, StationInfo', call'.info, call')
       /\ Called("StationRecord") =>
              C1_On(StationRecord, StationRecord', call'.record, call')]_vars

\* a changed record was appended after an older row of its station
C1_Witness ==
    /\ call.cls = "StationInfo"
    /\ call.changed /\ call.n = 1
    /\ 0 < call.prev /\ call.prev < call.info.moment
    /\ call.info \in StationInfo
    /\ \E A \in StationInfo : A.code = call.info.code /\ A.moment = call.prev

\* C2: with no row of the record's station at or before its time,
\* save_if_changed inserts the record and reports exactly 1 row written.
C2_FirstInsert ==
    [][/\ Called("StationInfo") => C2_On(StationInfo, StationInfo', call'.info, call')
       /\ Called("StationRecord") =>
              C2_On(StationRecord, StationRecord', call'.record, call')]_vars

\* a record was inserted with no prior row, while the table held rows of
\* another station at or before its time
C2_Witness ==
    /\ call.cls = "StationRecord"
    /\ call.prev = 0 /\ call.n = 1
    /\ call.record \in StationRecord
    /\ \E r \in StationRecord : r.code # call.record.code /\ r.moment <= call.record.moment

\* C3: a record whose (moment, code) is already stored writes 0 rows and
\* leaves the table as it was, whatever its other fields; the same record
\* submitted twice in a row writes nothing the second time, and when the
\* first submission wrote it, exactly one row of that key is stored.
C3_Idempotent ==
    [][/\ Called("StationInfo") =>
              /\ C3_On(StationInfo, StationInfo', call'.info, call')
              /\ (call.cls = "StationInfo" /\ call.info = call'.info) =>
                     /\ call'.n = 0 /\ StationInfo' = StationInfo
                     /\ call.n = 1 =>
                            {r \in StationInfo' : r.code = call'.info.code
                                                  /\ r.moment = call'.info.moment}
                                = {call'.info}
       /\ Called("StationRecord") =>
              /\ C3_On(StationRecord, StationRecord', call'.record, call')
              /\ (call.cls = "StationRecord" /\ call.record = call'.record) =>
                     /\ call'.n = 0 /\ StationRecord' = StationRecord
                     /\ call.n = 1 =>
                            {r \in StationRecord' : r.code = call'.record.code
                                                    /\ r.moment = call'.record.moment}
                                = {call'.record}]_vars

\* a record with other field values than the row stored under its key was
\* resubmitted and skipped
C3_Witness ==
    /\ call.cls = "StationInfo"
    /\ call.n = 0 /\ call.prev = call.info.moment
    /\ call.info \notin StationInfo
    /\ \E r \in StationInfo : r.code = call.info.code /\ r.moment = call.info.moment

\* C4 (as claimed): a record strictly older than the latest stored row of
\* its station raises the temporal-order fault and writes 0 rows.
C4_TemporalOrderFault ==
    [][/\ Called("StationInfo") => C4_On(StationInfo, StationInfo', call'.info, call')
       /\ Called("StationRecord") =>
              C4_On(StationRecord, StationRecord', call'.record, call')]_vars

\* what the code does there: the older record is stored without a fault
C4_Witness ==
    /\ call.cls = "StationInfo"
    /\ call.n = 1 /\ call.exc = "none"
    /\ call.info \in StationInfo
    /\ \E r \in StationInfo : r.code = call.info.code /\ r.moment > call.info.moment

-----------------------------------------------------------------------------
(* The ingestion runs' contract (C5 .. C8) *)

\* C5 (as claimed): whatever the runs and the order of their snapshots, no
\* row is committed with a moment smaller than that of a row already
\* stored for the same station.
C5_CommitOrder ==
    [][/\ \A r \in StationInfo' \ StationInfo :
              \A q \in StationInfo : q.code = r.code => q.moment <= r.moment
       /\ \A r \in StationRecord' \ StationRecord :
              \A q \in StationRecord : q.code = r.code => q.moment <= r.moment]_vars

\* what the code does: a replayed older snapshot is stored behind a newer one
C5_Witness ==
    /\ run.mode = "file" /\ run.exc = "none"
    /\ \E r \in run.works[1].info_written :
           \E q \in StationInfo : q.code = r.code /\ q.moment > r.moment

\* C6: of one do_work, either every row its batch loop inserted is
\* committed (it raised nothing), or none of them is (it raised).
C6_Atomic ==
    \A k \in 1..Len(run.works) :
        LET w == run.works[k]
        IN  /\ w.exc = "none" =>
                   w.info_written \subseteq StationInfo
                   /\ w.record_written \subseteq StationRecord
            /\ w.exc # "none" =>
                   w.info_written \cap StationInfo = {}
                   /\ w.record_written \cap StationRecord = {}

\* a do_work raised after its loop had inserted a StationInfo row, and the
\* row is not in the table
C6_Witness ==
    \E k \in 1..Len(run.works) :
        /\ run.works[k].exc = "OverflowError"
        /\ run.works[k].info_written # {}
        /\ run.works[k].info_written \cap StationInfo = {}

\* C7: no run, successful or failing, modifies or deletes a committed row
\* of StationInfo or StationRecord.
C7_AppendOnly ==
    [][StationInfo \subseteq StationInfo' /\ StationRecord \subseteq StationRecord']_vars

\* a second run raised after inserting a row, and the rows of the first
\* run are still stored
C7_Witness ==
    /\ run.count = 2 /\ run.exc # "none"
    /\ \E k \in 1..Len(run.works) : run.works[k].info_written # {}
    /\ StationInfo # {} /\ StationRecord # {}

\* the entries of the batch all parse and are stored, with k >= 1 distinct
\* station codes
ValidSnapshot(data) ==
    /\ data.kind = "list"
    /\ Len(data.entries) >= 1
    /\ \A i \in 1..Len(data.entries) : data.entries[i] \in ValidEntries
    /\ \A i, j \in 1..Len(data.entries) :
           i # j => data.entries[i].station.code # data.entries[j].station.code

\* C8 (as claimed): a valid snapshot of k distinct stations ingested against
\* an empty history raises nothing, reports 2k rows written and leaves, for
\* each of the k stations, a StationInfo and a StationRecord row at the
\* snapshot's moment.
C8_EverySampleStored ==
    \A k \in 1..Len(run.works) :
        LET w == run.works[k]
        IN  (w.empty_before /\ ValidSnapshot(w.data)) =>
                /\ w.exc = "none"
                /\ w.count = 2 * Len(w.data.entries)
                /\ \A i \in 1..Len(w.data.entries) :
                       LET code == DecimalStr[w.data.entries[i].station.code.s]
                       IN  /\ \E r \in StationInfo : r.code = code /\ r.moment = w.moment
                           /\ \E r \in StationRecord : r.code = code /\ r.moment = w.moment

\* what the code does: of a snapshot of two stations, 2 rows are written
C8_Witness ==
    /\ run.count = 1 /\ run.mode = "file" /\ run.exc = "none"
    /\ ValidSnapshot(run.works[1].data)
    /\ Len(run.works[1].data.entries) = 2
    /\ run.works[1].count = 2
    /\ Cardinality(StationInfo) = 1 /\ Cardinality(StationRecord) = 1

-----------------------------------------------------------------------------
(* The batch's contract (C12 .. C14), over the do_work calls of a run *)

\* the step is a run
IsRun == run'.count = run.count + 1

\* the tables committed before the k-th do_work of the run of this step
InfoBefore(k) == IF k = 1 THEN StationInfo ELSE run'.works[k - 1].info
RecordBefore(k) == IF k = 1 THEN StationRecord ELSE run'.works[k - 1].record

\* the do_work wrote nothing: its transaction inserted no row and the
\* tables committed after it are those before it
WroteNothing(k) ==
    /\ run'.works[k].info_written = {} /\ run'.works[k].record_written = {}
    /\ run'.works[k].info = InfoBefore(k) /\ run'.works[k].record = RecordBefore(k)

EntryParses(entry) == StationSample_from_dict(0, entry).ok

\* a list whose entries all parse and that holds two entries with state
\* "Operative" for one station code
Conflict(data) ==
    /\ data.kind = "list"
    /\ \A i \in 1..Len(data.entries) : EntryParses(data.entries[i])
    /\ \E i, j \in 1..Len(data.entries) :
           /\ i # j
           /\ Converted(data.entries[i].station.code) = Converted(data.entries[j].station.code)
           /\ data.entries[i].station.state = Str("Operative")
           /\ data.entries[j].station.state = Str("Operative")

\* C12: a snapshot with two or more Operative entries for one station makes
\* do_work fail with the exception of the duplicate resolver (it keeps none
\* of them), and no StationInfo or StationRecord row is written for any
\* station of the snapshot.
C12_ConflictFailsBatch ==
    [][IsRun =>
           \A k \in 1..Len(run'.works) :
               Conflict(run'.works[k].data) =>
                   /\ run'.works[k].exc = "Exception"
                   /\ run'.works[k].count = 0
                   /\ WroteNothing(k)]_vars

\* a snapshot of two Operative entries of station 1, told apart by nb_bike,
\* failed against a history that holds rows
C12_Witness ==
    /\ run.count = 2 /\ run.exc = "Exception"
    /\ Len(run.works) = 1
    /\ Conflict(run.works[1].data)
    /\ run.works[1].data.entries[1] # run.works[1].data.entries[2]
    /\ run.works[1].parsed = 2
    /\ StationInfo # {} /\ StationRecord # {}

\* the index of the first entry of the batch that fails to parse
FirstMalformed(entries) ==
    CHOOSE i \in 1..Len(entries) :
        /\ ~EntryParses(entries[i])
        /\ \A j \in 1..(i - 1) : EntryParses(entries[j])

\* C13: a do_work that inserted a row had parsed every entry of its snapshot
\* before; and when an entry of the snapshot fails to parse, do_work fails at
\* that entry, parses none after it, and no row of the snapshot is written,
\* not even for the entries before the malformed one.
C13_FailFast ==
    [][IsRun =>
           \A k \in 1..Len(run'.works) :
               LET w == run'.works[k]
               IN  /\ (w.info_written # {} \/ w.record_written # {}) =>
                          w.parsed = Len(w.data.entries)
                   /\ (w.data.kind = "list"
                         /\ \E i \in 1..Len(w.data.entries) :
                                ~EntryParses(w.data.entries[i])) =>
                          /\ w.exc = StationSample_from_dict(
                                         0, w.data.entries[FirstMalformed(w.data.entries)]).exc
                          /\ w.exc # "none"
                          /\ w.parsed = FirstMalformed(w.data.entries)
                          /\ w.count = 0
                          /\ WroteNothing(k)]_vars

\* a snapshot whose second entry is malformed failed, and the history
\* holds no row of its moment: none for its first entry, which is valid
C13_Witness ==
    /\ run.count = 2 /\ run.exc = "ApiParsingException"
    /\ Len(run.works) = 1
    /\ run.works[1].data.kind = "list"
    /\ Len(run.works[1].data.entries) = 2
    /\ run.works[1].data.entries[1] \in ValidEntries
    /\ run.works[1].data.entries[2] \in MalformedEntries
    /\ run.works[1].parsed = 2
    /\ StationInfo # {}
    /\ \A r \in StationInfo \cup StationRecord : r.moment # run.works[1].moment

\* C14 (as claimed): do_work classifies its payload: an empty body raises
\* the empty-reply error; a body that is not JSON a parsing error; a mapping
\* with an error member the API error with the reported code when the code
\* converts, a parsing error when it does not; a mapping without error a
\* parsing error; nothing but a list reaches the parsing of entries; and in
\* each of these error cases no row is written.
C14_PayloadClassified ==
    [][IsRun =>
           \A k \in 1..Len(run'.works) :
               LET w == run'.works[k]
               IN  /\ w.data.kind = "empty" => w.exc = "ApiEmptyReplyException"
                   /\ w.data.kind = "notjson" => w.exc = "ApiParsingException"
                   /\ w.data.kind = "error" =>
                          IF IntError(w.data.code) = "none"
                          THEN w.exc = "ApiErrorCode" /\ w.code = Converted(w.data.code).n
                          ELSE w.exc = "ApiParsingException"
                   /\ w.data.kind = "dict" => w.exc = "ApiParsingException"
                   /\ w.data.kind # "list" => w.parsed = 0 /\ w.exc # "none" /\ WroteNothing(k)]_vars

\* what the code does: a payload that is a JSON string passes the
\* classification and its first character is parsed as an entry
C14_Witness ==
    /\ run.count >= 1 /\ Len(run.works) = 1
    /\ run.works[1].data.kind = "string"
    /\ run.works[1].parsed = 1
    /\ run.works[1].exc = "TypeError"
    /\ run.exc = "TypeError"

-----------------------------------------------------------------------------
(* The reachability log's contract (C15 .. C17) *)

\* the step is a run in API mode; its fetch attempt is stamped clock'
IsApiRun == IsRun /\ run'.mode = "api"

\* get_json raised: the run ended with the exception of the fetch
FetchFailed(r) == r.exc \in {"ApiNetworkException", "ApiHttpException"}

\* C15 (as claimed): in API mode, a fetched body that is an error object
\* with a code makes the run raise the API error with that code, and the
\* reachability row recorded for the fetch attempt has result = false.
C15_ErrorBodyLoggedFailed ==
    [][(/\ IsApiRun
        /\ Len(run'.works) = 1
        /\ run'.works[1].data.kind = "error"
        /\ IntError(run'.works[1].data.code) = "none"
        /\ \A r \in ApiReachabilityStat : r.moment # clock') =>
           /\ run'.exc = "ApiErrorCode"
           /\ run'.works[1].code = Converted(run'.works[1].data.code).n
           /\ \E r \in ApiReachabilityStat' : r.moment = clock' /\ ~r.result]_vars

\* what the code does: the run raised the API error with the code of the
\* body, and the row of its fetch attempt says the fetch succeeded
C15_Witness ==
    /\ run.count = 1 /\ run.mode = "api"
    /\ run.exc = "ApiErrorCode"
    /\ run.works[1].code = 3
    /\ ApiReachabilityStat = {[moment |-> clock, result |-> TRUE, detail |-> ""]}

\* C16 (as claimed): a run in API mode appends exactly one reachability
\* row, stamped with the moment of its fetch attempt, with result = false
\* and a detail when the fetch raised and result = true otherwise; a run
\* that replays files appends none; and no step removes a row, whether the
\* ingestion that follows commits or rolls back.
C16_OneRowPerFetch ==
    [][/\ ApiReachabilityStat \subseteq ApiReachabilityStat'
       /\ IsApiRun =>
              \E r \in ApiReachabilityStat' \ ApiReachabilityStat :
                  /\ ApiReachabilityStat' = ApiReachabilityStat \cup {r}
                  /\ r.moment = clock'
                  /\ r.result = ~FetchFailed(run')
                  /\ FetchFailed(run') => r.detail # ""
       /\ (IsRun /\ run'.mode \in {"file", "dir"}) =>
              ApiReachabilityStat' = ApiReachabilityStat]_vars

\* what the code does: the second fetch attempt of one second succeeded,
\* and the only row of the log is that of the first attempt, which failed
C16_Witness ==
    /\ run.count = 2 /\ run.mode = "api"
    /\ ~FetchFailed(run)
    /\ Len(run.works) = 1
    /\ ApiReachabilityStat =
           {[moment |-> clock, result |-> FALSE, detail |-> "ApiNetworkException"]}

\* C17: when the reachability row of a fetch attempt cannot be written (its
\* moment is already in the table), no exception of the write leaves
\* save_api_stat: after a failed fetch the run ends with the exception of
\* the fetch, and after a successful one do_work is called and the run ends
\* as do_work does on the payload, committing what do_work commits.
C17_AuditFailureContained ==
    [][(IsApiRun /\ \E r \in ApiReachabilityStat : r.moment = clock') =>
           /\ ApiReachabilityStat' = ApiReachabilityStat
           /\ Len(run'.works) = 0 => FetchFailed(run')
           /\ Len(run'.works) = 1 =>
                  /\ run'.works[1] =
                         do_work(StationInfo, StationRecord, clock', run'.works[1].data)
                  /\ run'.exc = run'.works[1].exc
                  /\ StationInfo' = run'.works[1].info
                  /\ StationRecord' = run'.works[1].record]_vars

\* the row of the second fetch attempt of one second was refused (the log
\* holds the failure of the first only), and the run ingested its snapshot
C17_Witness ==
    /\ run.count = 2 /\ run.mode = "api"
    /\ run.exc = "none"
    /\ Len(run.works) = 1
    /\ run.works[1].count = 2
    /\ ApiReachabilityStat =
           {[moment |-> clock, result |-> FALSE, detail |-> "ApiHttpException"]}
    /\ \E r \in StationInfo : r.moment = clock
    /\ \E r \in StationRecord : r.moment = clock

-----------------------------------------------------------------------------
(* The directory replay's contract (C18) *)

\* the ingestion failures the replay is to skip: an empty payload, an error
\* payload, a malformed entry, an unresolvable duplicate conflict
IngestionFailure(data) ==
    \/ data.kind \in {"empty", "error"}
    \/ data.kind = "list" /\ \E i \in 1..Len(data.entries) : ~EntryParses(data.entries[i])
    \/ Conflict(data)

\* C18 (as claimed): a run with --dir processes its files in the order of
\* their names; a do_work that fails leaves no row of its file; with
\* --skip-file-on-error, when the failures are ingestion failures, every file
\* is processed and the run ends without exception; without the option, the
\* run ends with the first failure and no later file is processed.
C18_FileGranularitySkip ==
    [][(IsRun /\ run'.mode = "dir") =>
           /\ Len(run'.works) <= run'.nfiles
           /\ \A k \in 1..(Len(run'.works) - 1) :
                  run'.works[k].moment < run'.works[k + 1].moment
           /\ \A k \in 1..Len(run'.works) :
                  run'.works[k].exc # "none" => WroteNothing(k)
           /\ run'.skip =>
                  ((\A k \in 1..Len(run'.works) :
                        run'.works[k].exc # "none" => IngestionFailure(run'.works[k].data)) =>
                       Len(run'.works) = run'.nfiles /\ run'.exc = "none")
           /\ ~run'.skip =>
                  /\ \A k \in 1..(Len(run'.works) - 1) : run'.works[k].exc = "none"
                  /\ run'.exc = run'.works[Len(run'.works)].exc
                  /\ run'.exc = "none" => Len(run'.works) = run'.nfiles]_vars

\* what the code does: with --skip-file-on-error, the duplicate conflict of
\* the first of two files ended the run and the second was not processed
C18_Witness ==
    /\ run.mode = "dir" /\ run.skip
    /\ run.nfiles = 2
    /\ Len(run.works) = 1
    /\ Conflict(run.works[1].data)
    /\ run.exc = "Exception"

-----------------------------------------------------------------------------
(* The parsers' contract (C19, C20), over one StationSample.from_dict call *)

\* C19 (as claimed): StationSample.from_dict either returns a sample whose
\* StationInfo and StationRecord carry the moment of the call and one station
\* code, or raises ApiParsingException; no entry makes it raise anything else.
C19_ParseOrValidationError ==
    parse.done =>
        IF parse.ok
        THEN /\ parse.exc = "none"
             /\ parse.info.moment = parse.moment
             /\ parse.record.moment = parse.moment
             /\ parse.info.code = parse.record.code
        ELSE parse.exc = "ApiParsingException"

\* what the code does: an entry without a station mapping raises KeyError
C19_Witness ==
    /\ parse.done /\ ~parse.ok
    /\ parse.data.t = "obj"
    /\ parse.data.station.t = "absent"
    /\ parse.exc = "KeyError"

\* the boolean-like fields of an entry and the attributes made of them
BoolFields(data, info, record) ==
    {[field |-> data.station.type, attr |-> info.stype],
     [field |-> data.overflow, attr |-> record.overflow],
     [field |-> data.kioskState, attr |-> record.kiosk_state],
     [field |-> data.creditCard, attr |-> record.credit_card],
     [field |-> data.overflowActivation, attr |-> record.overflow_activation]}

\* the fields other than dueDate that an entry must hold
RequiredFields(data) ==
    {data.station.state, data.station.name, data.station.type, data.station.code,
     data.station.gps.latitude, data.station.gps.longitude}
        \cup {data[f] : f \in RecordFields}

\* C20: a boolean-like field converts to true for "yes" and to false for
\* "no", and any other value makes parsing fail; a null dueDate parses with
\* due_date unset; and an entry that lacks the station mapping, the gps
\* mapping or any required field other than dueDate fails to parse.
C20_FieldRules ==
    parse.done =>
        /\ \A b \in BoolFields(parse.data, parse.info, parse.record) :
               /\ b.field = Str("yes") /\ parse.ok => b.attr = TRUE
               /\ b.field = Str("no") /\ parse.ok => b.attr = FALSE
               /\ b.field \notin {Str("yes"), Str("no")} => ~parse.ok /\ parse.exc # "none"
        /\ (parse.ok /\ parse.data.station.dueDate = Null) => parse.info.due_date = Null
        /\ parse.data = WellFormed => parse.ok
        /\ (\/ parse.data.station.t = "absent"
            \/ parse.data.station.gps.t = "absent"
            \/ \E v \in RequiredFields(parse.data) : v = Absent) =>
               ~parse.ok /\ parse.exc # "none"

\* an entry with type "no" and a null dueDate parsed: stype is false and
\* due_date is unset
C20_Witness ==
    /\ parse.done /\ parse.ok
    /\ parse.data.station.type = Str("no")
    /\ parse.info.stype = FALSE
    /\ parse.data.station.dueDate = Null
    /\ parse.info.due_date = Null

\* an entry with a bad boolean string failed to parse
C20_BadBoolean ==
    /\ parse.done /\ ~parse.ok
    /\ parse.data.creditCard = Str("maybe")
    /\ parse.exc = "ApiParsingException"

\* an entry without a required field failed to parse
C20_MissingField ==
    /\ parse.done /\ ~parse.ok
    /\ parse.data.nbBike = Absent
    /\ parse.exc = "ApiParsingException"

-----------------------------------------------------------------------------
(* The history's contract (C21 .. C23) *)

\* r and q are rows of one station that are adjacent in the order of time
Adjacent(table, r, q) ==
    /\ r.code = q.code
    /\ r.moment < q.moment
    /\ \A x \in table : x.code = r.code => ~(r.moment < x.moment /\ x.moment < q.moment)

\* no two adjacent rows of a station agree on all the compared fields
NoRedundant(table) ==
    \A r, q \in table : Adjacent(table, r, q) => ~SameFields(r, q)

\* the step is a run none of whose snapshots is older than a stored row
InOrderRun ==
    /\ IsRun
    /\ \A k \in 1..Len(run'.works) :
           \A r \in StationInfo \cup {[moment |-> x.moment] : x \in StationRecord} :
               r.moment <= run'.works[k].moment

\* C21 (as claimed): runs whose snapshots come in non-decreasing order of
\* time keep both tables free of redundant rows: no two rows of a station
\* adjacent in time agree on every field other than moment and code.
C21_OnlyChangesPersisted ==
    [][(InOrderRun /\ NoRedundant(StationInfo) /\ NoRedundant(StationRecord)) =>
           NoRedundant(StationInfo') /\ NoRedundant(StationRecord')]_vars

\* what the code does: a station whose name is the JSON number 2 was
\* ingested at two moments in order, and the second run stored a row that
\* agrees with the first on every compared field
C21_Witness ==
    /\ run.count = 2 /\ run.exc = "none"
    /\ Len(run.works) = 1
    /\ \A i \in 1..Len(run.works[1].data.entries) :
           run.works[1].data.entries[i] \in UntypedEntries
    /\ \E r, q \in StationInfo :
           /\ Adjacent(StationInfo, r, q)
           /\ SameFields(r, q)
           /\ q \in run.works[1].info_written
           /\ q.moment = run.works[1].moment
           /\ r.name = Str("2") /\ q.name = Str("2")

\* the samples the batch loop of a do_work that raised nothing went through
SamplesOf(w) ==
    IF w.data.kind = "list"
    THEN The({IF parsed.exc # "none" THEN <<>>
              ELSE remove_duplicate_code(parsed.samples).output :
              parsed \in {parse_all(w.moment, w.data.entries)}})
    ELSE <<>>

\* the transaction of the k-th do_work of the step before its j-th sample
TransactionBefore(k, samples, j) ==
    process([info |-> InfoBefore(k), record |-> RecordBefore(k), count |-> 0,
             exc |-> "none"], SubSeq(samples, 1, j - 1), 1)

\* C22: in a do_work that raises nothing, each save_all_if_changed leaves
\* the StationInfo table as save_if_changed of the information half alone
\* does and the StationRecord table as save_if_changed of the record half
\* alone does, and returns 0, 1 or 2, the number of rows it inserted; and
\* the count the do_work reports is the number of rows its batch inserted.
C22_CountsRowsWritten ==
    [][IsRun =>
           \A k \in 1..Len(run'.works) :
               run'.works[k].exc = "none" =>
                   /\ run'.works[k].count =
                          Cardinality(run'.works[k].info_written)
                              + Cardinality(run'.works[k].record_written)
                   /\ \A samples \in {SamplesOf(run'.works[k])} :
                          \A j \in 1..Len(samples) :
                              \A st \in {TransactionBefore(k, samples, j)} :
                                  \A a \in {save_all_if_changed(st, samples[j])},
                                     i \in {save_if_changed("StationInfo", st.info,
                                                            samples[j].info)},
                                     r \in {save_if_changed("StationRecord", st.record,
                                                            samples[j].record)} :
                                      /\ a.exc = "none"
                                      /\ a.info = i.table /\ a.record = r.table
                                      /\ a.count - st.count \in {0, 1, 2}
                                      /\ a.count - st.count = i.n + r.n
                                      /\ a.count - st.count =
                                             Cardinality(a.info \ st.info)
                                                 + Cardinality(a.record \ st.record)]_vars

\* the half repeats, or departs from, the most recent earlier row of its
\* station: the fields it would store against the fields that row holds
Repeats(cls, table, self) ==
    \E p \in get_latest_up_to_self(table, self) :
        p.moment < self.moment /\ SameFields(p, db_value(cls, self))
Departs(cls, table, self) ==
    \E p \in get_latest_up_to_self(table, self) :
        p.moment < self.moment /\ ~SameFields(p, db_value(cls, self))

\* C22: as C22_CountsRowsWritten, and a sample of which one half only
\* departs from the most recent earlier row of its station, the other half
\* repeating its own, has the row of the departing half written and no row
\* of the other half.
C22_OnlyChangedHalfWritten ==
    [][IsRun =>
           \A k \in 1..Len(run'.works) :
               run'.works[k].exc = "none" =>
                   /\ run'.works[k].count =
                          Cardinality(run'.works[k].info_written)
                              + Cardinality(run'.works[k].record_written)
                   /\ \A samples \in {SamplesOf(run'.works[k])} :
                          \A j \in 1..Len(samples) :
                              \A st \in {TransactionBefore(k, samples, j)} :
                                  \A a \in {save_all_if_changed(st, samples[j])} :
                                      /\ a.count - st.count \in {0, 1, 2}
                                      /\ a.count - st.count =
                                             Cardinality(a.info \ st.info)
                                                 + Cardinality(a.record \ st.record)
                                      /\ (/\ Repeats("StationInfo", st.info, samples[j].info)
                                          /\ Departs("StationRecord", st.record,
                                                     samples[j].record))
                                             => /\ a.info = st.info
                                                /\ a.record = st.record
                                                       \cup {samples[j].record}
                                      /\ (/\ Departs("StationInfo", st.info, samples[j].info)
                                          /\ Repeats("StationRecord", st.record,
                                                     samples[j].record))
                                             => /\ a.record = st.record
                                                /\ a.info = st.info
                                                       \cup {db_value("StationInfo",
                                                                      samples[j].info)}]_vars

\* a second snapshot of the station whose name is the number 2 changed
\* nb_bike only, and the run reported 2: a StationRecord row and a
\* StationInfo row that repeats the row before it
C22_Witness ==
    /\ run.count = 2 /\ run.exc = "none"
    /\ Len(run.works) = 1
    /\ Len(run.works[1].data.entries) = 1
    /\ run.works[1].data.entries[1] \in UntypedEntries
    /\ run.works[1].count = 2
    /\ \E r \in StationInfo, q \in run.works[1].info_written :
           /\ Adjacent(StationInfo, r, q) /\ SameFields(r, q)
    /\ \E r \in StationRecord, q \in run.works[1].record_written :
           /\ Adjacent(StationRecord, r, q) /\ ~SameFields(r, q)

\* no two rows of the table have the same (moment, code)
UniqueKeys(table) ==
    \A r, q \in table : r.moment = q.moment /\ r.code = q.code => r = q

\* save_if_changed(self) reaches self.save(force_insert=True): a row was
\* inserted, or the INSERT raised
Attempts(cls, table, self) ==
    \E c \in {save_if_changed(cls, table, self)} :
        c.n = 1 \/ c.exc \in {"IntegrityError", "OverflowError"}

\* the INSERT save_if_changed(self) attempts meets a row of self's key
Collides(cls, table, self) ==
    /\ Attempts(cls, table, self)
    /\ \E r \in table : r.moment = self.moment /\ r.code = self.code

\* C23: after every step the StationInfo table and the StationRecord table
\* each hold at most one row per (moment, code), and no save_if_changed of
\* a run, on the tables as its transaction sees them, attempts the INSERT
\* of a row whose key a stored row has.
C23_RowKeysUnique ==
    [][/\ UniqueKeys(StationInfo') /\ UniqueKeys(StationRecord')
       /\ IsRun =>
              \A k \in 1..Len(run'.works) :
                  \A samples \in {SamplesOf(run'.works[k])} :
                      \A j \in 1..Len(samples) :
                          \A st \in {TransactionBefore(k, samples, j)} :
                              st.exc = "none" =>
                                  /\ ~Collides("StationInfo", st.info, samples[j].info)
                                  /\ save_if_changed("StationInfo", st.info,
                                                     samples[j].info).exc = "none"
                                         => ~Collides("StationRecord", st.record,
                                                      samples[j].record)]_vars

\* a snapshot of a moment that is stored, with another nb_bike than the
\* stored row of its key: the run raised nothing and wrote nothing
C23_Witness ==
    /\ run.count = 2 /\ run.exc = "none"
    /\ Len(run.works) = 1
    /\ run.works[1].exc = "none" /\ run.works[1].count = 0
    /\ \E samples \in {SamplesOf(run.works[1])} :
           /\ Len(samples) = 1
           /\ \E r \in StationRecord :
                  /\ r.moment = samples[1].record.moment
                  /\ r.code = samples[1].record.code
                  /\ r.nb_bike # samples[1].record.nb_bike

-----------------------------------------------------------------------------
(* Degenerate batches (C24, C25) *)

\* the station has several entries among the samples, none "Operative"
AllInoperative(iterable, code) ==
    /\ Len(group_of(iterable, code)) > 1
    /\ operative_of(group_of(iterable, code)) = <<>>

\* C24: when a station has several entries in the batch and none of them
\* is Operative (and no station has several Operative entries),
\* remove_duplicate_code raises nothing and its output holds no entry of
\* that station.
C24_InoperativeDropped ==
    (dedup.done /\ NoConflict(dedup.input)) =>
        \A i \in 1..Len(dedup.input) :
            AllInoperative(dedup.input, dedup.input[i].info.code) =>
                /\ dedup.exc = "none"
                /\ OutputOf(dedup.input[i].info.code) = {}

\* the station without an Operative entry comes last in the batch, after
\* another station, and the output is empty
C24_Witness ==
    /\ dedup.done /\ dedup.exc = "none"
    /\ Len(dedup.input) = 3
    /\ dedup.input[1].info.code # dedup.input[2].info.code
    /\ dedup.input[2].info.code = dedup.input[3].info.code
    /\ dedup.input[2] # dedup.input[3]
    /\ AllInoperative(dedup.input, dedup.input[3].info.code)
    /\ dedup.output = <<>>

\* C24, its consequence for a run: a do_work whose batch parses, has no
\* station with several Operative entries and has a station with several
\* entries none of which is Operative raises nothing in the resolver and
\* its transaction inserts no row of that station.
C24_RunWritesNoRow ==
    [][IsRun =>
           \A k \in 1..Len(run'.works) :
               \A parsed \in {IF run'.works[k].data.kind = "list"
                              THEN parse_all(run'.works[k].moment,
                                             run'.works[k].data.entries)
                              ELSE [exc |-> "skip", samples |-> <<>>, n |-> 0]} :
                   (parsed.exc = "none" /\ NoConflict(parsed.samples)) =>
                       \A i \in 1..Len(parsed.samples) :
                           AllInoperative(parsed.samples, parsed.samples[i].info.code) =>
                               /\ run'.works[k].exc \notin {"Exception", "UnboundLocalError"}
                               /\ \A r \in run'.works[k].info_written :
                                      r.code # parsed.samples[i].info.code
                               /\ \A r \in run'.works[k].record_written :
                                      r.code # parsed.samples[i].record.code]_vars

\* a run over a batch of two entries of one station, none Operative
C24_RunWitness ==
    /\ run.count >= 1 /\ run.exc = "none"
    /\ \E k \in 1..Len(run.works) :
           /\ run.works[k].data.kind = "list"
           /\ Len(run.works[k].data.entries) = 2
           /\ \A i \in 1..2 : run.works[k].data.entries[i] =
                                  Entry("1", "Work in progress", Num(1))
           /\ run.works[k].exc = "none" /\ run.works[k].count = 0

\* the payload "[]": a list without entries
EmptyList(data) == data.kind = "list" /\ data.entries = <<>>

\* C25 (as claimed): a do_work on the payload "[]" either raises the
\* empty-reply error or raises nothing and reports 0 rows; it raises no
\* other exception, and it writes nothing.
C25_EmptyListDefined ==
    [][IsRun =>
           \A k \in 1..Len(run'.works) :
               EmptyList(run'.works[k].data) =>
                   /\ \/ run'.works[k].exc = "ApiEmptyReplyException"
                      \/ run'.works[k].exc = "none" /\ run'.works[k].count = 0
                   /\ WroteNothing(k)]_vars

\* what the code does: the resolver raises UnboundLocalError on the empty
\* batch, and the exception leaves the run
C25_Witness ==
    /\ run.count >= 1 /\ Len(run.works) = 1
    /\ EmptyList(run.works[1].data)
    /\ run.works[1].parsed = 0
    /\ run.works[1].exc = "UnboundLocalError"
    /\ run.exc = "UnboundLocalError"

====
